---- MODULE Spec2Model ----
(***************************************************************************)
(* A model of vkquick's API client (src/vkquick/api.py): construction with *)
(* the token-owner probe, the attribute-chain method name accumulator, the *)
(* fluent call and method(), the request coroutine _make_api_request and   *)
(* the delay keeper _waiting.                                              *)
(*                                                                         *)
(* Time is counted in ticks of 1/TicksPerSecond s.  `now` is the event     *)
(* loop's monotonic clock (asyncio.sleep runs on it) and `now + skew` is   *)
(* what time.time() returns; ClockMove steps the wall clock.               *)
(***************************************************************************)
EXTENDS Integers, Sequences, FiniteSets, TLC

\* ------------------------------------------------------------- bounds
NCalls == 2         \* request coroutines alive at once
MaxTime == 4        \* ticks the clock runs for
MaxMoves == 1       \* steps of the wall clock
MaxCalls == 3       \* calls made in one behaviour
MaxAccess == 2      \* attribute reads in one behaviour
Epoch == 100        \* the clock's reading at construction
TicksPerSecond == 40

Calls == 1..NCalls
None == 0 - 1

\* ------------------------------------------------------------ strings
\* A string is a sequence of one-character strings.
Lower == {"a", "b"}

Upper(ch) == CASE ch = "a" -> "A" [] ch = "b" -> "B" [] OTHER -> ch

RECURSIVE SubFrom(_, _)
\* re.sub(r"_(?P<let>[a-z])", _upper_zero_group, name), scanning from i:
\* leftmost non-overlapping matches, everything else copied.
SubFrom(name, i) ==
    IF i > Len(name) THEN <<>>
    ELSE IF name[i] = "_" /\ i < Len(name) /\ name[i + 1] \in Lower
         THEN <<Upper(name[i + 1])>> \o SubFrom(name, i + 2)
         ELSE <<name[i]>> \o SubFrom(name, i + 1)

RECURSIVE SubFromAny(_, _)
\* the same with the pattern r"_(?P<let>.)": any character after "_" is taken
SubFromAny(name, i) ==
    IF i > Len(name) THEN <<>>
    ELSE IF name[i] = "_" /\ i < Len(name)
         THEN <<Upper(name[i + 1])>> \o SubFromAny(name, i + 2)
         ELSE <<name[i]>> \o SubFromAny(name, i + 1)

convert_name_any(name) == SubFromAny(name, 1)

convert_name(name) == SubFrom(name, 1)

\* attribute names a caller reads off the client, and names given to method()
Segments == { <<"a">>, <<"b", "_", "a">> }
MethodNames == { <<"a", ".", "b", "_", "a">>, <<"a", ".", "b", "A">> }

\* __getattr__'s update of the accumulator
getattr_name(acc, attribute) ==
    LET attr == convert_name(attribute)
    IN  IF acc # <<>> THEN acc \o <<".">> \o attr ELSE attr

\* ------------------------------------------------------- JSON values
JInt(n) == [t |-> "int", i |-> n]
JStr(s) == [t |-> "str", s |-> s]
JList(l) == [t |-> "list", l |-> l]
JDict(d) == [t |-> "dict", d |-> d]
Garbage == [t |-> "garbage"]

ErrorDescriptor == JDict([error_code |-> JInt(5), error_msg |-> JStr("bad token")])
UserObject == JDict([id |-> JInt(1)])
ErrorEnvelope == JDict([error |-> ErrorDescriptor])
Envelope(v) == JDict([response |-> v])

\* Python's `key in x`
HasKey(x, key) ==
    CASE x.t = "dict" -> key \in DOMAIN x.d
      [] x.t = "list" -> \E i \in DOMAIN x.l : x.l[i] = JStr(key)
      [] x.t = "str" -> FALSE
      [] OTHER -> FALSE

\* x supports `in` (otherwise TypeError: argument is not iterable)
Iterable(x) == x.t \in {"dict", "list", "str"}

\* Python truthiness
Truthy(x) ==
    CASE x.t = "dict" -> DOMAIN x.d # {}
      [] x.t = "list" -> x.l # <<>>
      [] x.t = "int" -> x.i # 0
      [] OTHER -> TRUE

Exc(e) == [t |-> "exc", e |-> e]
NoExc == [t |-> "none"]

\* VkApiError.destruct_response(response): the error built from the envelope
destruct_response(response) ==
    IF response.t = "dict" /\ "error" \in DOMAIN response.d
       /\ response.d.error.t = "dict"
       /\ {"error_code", "error_msg"} \subseteq DOMAIN response.d.error.d
    THEN [t |-> "exc", e |-> "VkApiError",
          code |-> response.d.error.d.error_code,
          msg |-> response.d.error.d.error_msg]
    ELSE Exc("KeyError")

\* _check_errors that looks for an error only when there is no response
check_errors_unless_response(response) ==
    IF ~Iterable(response) THEN Exc("TypeError")
    ELSE IF HasKey(response, "error") /\ ~HasKey(response, "response")
    THEN destruct_response(response)
    ELSE NoExc

\* _check_errors(response): the exception it raises, or NoExc
check_errors(response) ==
    IF ~Iterable(response) THEN Exc("TypeError")
    ELSE IF HasKey(response, "error") THEN destruct_response(response)
    ELSE NoExc

\* ------------------------------------------------------ construction
DelayUser == TicksPerSecond \div 3
DelayGroup == TicksPerSecond \div 20

\* what the users.get probe can answer
ProbeBodies ==
    { ErrorEnvelope, Envelope(JList(<<>>)), Envelope(JList(<<UserObject>>)), Garbage }

\* define_token_owner with the classes the wrong way round
define_token_owner_swapped(body) ==
    IF body.t # "dict" THEN [exc |-> Exc("DecodeError"), owner |-> "none"]
    ELSE IF "response" \notin DOMAIN body.d
    THEN [exc |-> Exc("KeyError"), owner |-> "none"]
    ELSE LET e == check_errors(body.d.response)
         IN  IF e # NoExc THEN [exc |-> e, owner |-> "none"]
             ELSE [exc |-> NoExc,
                   owner |-> IF Truthy(body.d.response) THEN "group" ELSE "user"]

\* define_token_owner: [exc, owner]
define_token_owner(body) ==
    IF body.t # "dict" THEN [exc |-> Exc("DecodeError"), owner |-> "none"]
    ELSE IF "response" \notin DOMAIN body.d
    THEN [exc |-> Exc("KeyError"), owner |-> "none"]
    ELSE LET e == check_errors(body.d.response)
         IN  IF e # NoExc THEN [exc |-> e, owner |-> "none"]
             ELSE [exc |-> NoExc,
                   owner |-> IF Truthy(body.d.response) THEN "user" ELSE "group"]

\* ---------------------------------------------------- the delay keeper
\* _waiting sleeping for the time that has passed, not the time that is left
waiting_elapsed(last, wall, d) ==
    LET diff == wall - last
    IN  IF diff < d
        THEN [slept |-> TRUE, wait_time |-> diff, last |-> last + d]
        ELSE [slept |-> FALSE, wait_time |-> 0, last |-> wall]

\* _waiting recording the time of the call when it has to sleep, too
waiting_records_now(last, wall, d) ==
    LET diff == wall - last
    IN  IF diff < d
        THEN [slept |-> TRUE, wait_time |-> d - diff, last |-> wall]
        ELSE [slept |-> FALSE, wait_time |-> 0, last |-> wall]

\* _waiting(), given self._last_request_time, time.time() and self._delay:
\* whether it sleeps, for how long, and the new self._last_request_time
waiting(last, wall, d) ==
    LET diff == wall - last
    IN  IF diff < d
        THEN [slept |-> TRUE, wait_time |-> d - diff, last |-> last + d]
        ELSE [slept |-> FALSE, wait_time |-> 0, last |-> wall]

\* -------------------------------------------------------- the response
\* response_factory (vkquick.utils.AttrDict by default): a view over the value
response_factory(x) == [t |-> "wrapped", of |-> x]

\* what the transport can hand back for one request
Bodies ==
    { ErrorEnvelope,
      Envelope(UserObject),
      Envelope(JList(<<UserObject, JDict([id |-> JInt(2)])>>)),
      Envelope(JInt(1)),
      JDict([error |-> ErrorDescriptor, response |-> JInt(1)]),
      JDict([other |-> JInt(0)]),
      Garbage }

\* the same with a list response handed to response_factory as a whole
normalize_list_whole(body) ==
    IF body.t # "dict" THEN [exc |-> Exc("DecodeError"), value |-> NoExc]
    ELSE LET e == check_errors(body)
         IN  IF e # NoExc THEN [exc |-> e, value |-> NoExc]
             ELSE IF "response" \notin DOMAIN body.d
             THEN [exc |-> Exc("KeyError"), value |-> NoExc]
             ELSE LET r == body.d.response
                  IN  [exc |-> NoExc,
                       value |-> IF r.t \in {"dict", "list"}
                                 THEN response_factory(r) ELSE r]

\* lines 231-237 of _make_api_request on the parsed body: [exc, value]
normalize(body) ==
    IF body.t # "dict" THEN [exc |-> Exc("DecodeError"), value |-> NoExc]
    ELSE LET e == check_errors(body)
         IN  IF e # NoExc THEN [exc |-> e, value |-> NoExc]
             ELSE IF "response" \notin DOMAIN body.d
             THEN [exc |-> Exc("KeyError"), value |-> NoExc]
             ELSE LET r == body.d.response
                  IN  [exc |-> NoExc,
                       value |->
                         IF r.t = "dict" THEN response_factory(r)
                         ELSE IF r.t = "list"
                         THEN JList([i \in DOMAIN r.l |-> response_factory(r.l[i])])
                         ELSE r]

\* --------------------------------------------------- request parameters
\* A mapping (dict) is a function from its keys; a value is an int, a str or
\* a list, set or tuple, the latter three holding their elements in the order
\* iteration yields them.
PySet(l) == [t |-> "set", l |-> l]
PyTuple(l) == [t |-> "tuple", l |-> l]
NoParams == << >>

\* {**base, **top}, and base.update(top)
Overlay(base, top) ==
    [k \in DOMAIN base \cup DOMAIN top |->
        IF k \in DOMAIN top THEN top[k] ELSE base[k]]

\* the token and the version a client is built with
Token == <<"t", "k">>
Version == <<"5", ".", "1", "3", "3">>

\* _fill_request_params(params)
fill_request_params(tok, ver, params) ==
    Overlay([access_token |-> JStr(tok), v |-> JStr(ver)], params)

\* lines 184-187 of __call__: the request_params it hands on
call_params(tok, ver, use_autocomplete, autocomplete, kwargs) ==
    LET filled == fill_request_params(tok, ver, kwargs)
    IN  IF use_autocomplete THEN Overlay(filled, autocomplete) ELSE filled

Digit == <<"0", "1", "2", "3", "4", "5", "6", "7", "8", "9">>

RECURSIVE py_str_int(_)
\* str(n) for n >= 0
py_str_int(n) ==
    IF n < 10 THEN <<Digit[n + 1]>>
    ELSE py_str_int(n \div 10) \o <<Digit[(n % 10) + 1]>>

RECURSIVE join(_, _)
\* sep.join(strs)
join(sep, strs) ==
    IF strs = <<>> THEN <<>>
    ELSE IF Len(strs) = 1 THEN strs[1]
    ELSE strs[1] \o sep \o join(sep, Tail(strs))

\* ",".join(strs)
comma_join(strs) == join(<<",">>, strs)

\* repr(v) of an int or a str (without quotes or backslashes in it)
py_repr(v) == IF v.t = "int" THEN py_str_int(v.i) ELSE <<"'">> \o v.s \o <<"'">>

\* str(v): of an int, of a str, and of a list, set or tuple of ints and strs
py_str(v) ==
    CASE v.t = "int" -> py_str_int(v.i)
      [] v.t = "str" -> v.s
      [] v.t = "list" ->
            <<"[">> \o join(<<",", " ">>, [i \in DOMAIN v.l |-> py_repr(v.l[i])])
                   \o <<"]">>
      [] v.t = "tuple" ->
            <<"(">> \o join(<<",", " ">>, [i \in DOMAIN v.l |-> py_repr(v.l[i])])
                   \o (IF Len(v.l) = 1 THEN <<",", ")">> ELSE <<")">>)
      [] v.t = "set" ->
            IF v.l = <<>> THEN <<"s", "e", "t", "(", ")">>
            ELSE <<"{">> \o join(<<",", " ">>, [i \in DOMAIN v.l |-> py_repr(v.l[i])])
                        \o <<"}">>

\* isinstance(value, (list, set, tuple))
IsCollection(value) == value.t \in {"list", "set", "tuple"}

\* the same with isinstance(value, list)
flatten_lists_only(params) ==
    [k \in DOMAIN params |->
        IF params[k].t = "list"
        THEN JStr(comma_join([i \in DOMAIN params[k].l |-> py_str(params[k].l[i])]))
        ELSE params[k]]

\* lines 219-221 of _make_api_request, on request_params
flatten(params) ==
    [k \in DOMAIN params |->
        IF IsCollection(params[k])
        THEN JStr(comma_join([i \in DOMAIN params[k].l |-> py_str(params[k].l[i])]))
        ELSE params[k]]

RECURSIVE quote_plus(_)
\* urllib.parse.quote_plus on the characters used here: letters, digits, "_"
\* and "." are kept, " " becomes "+", the others are escaped
quote_plus(str) ==
    IF str = <<>> THEN <<>>
    ELSE (CASE Head(str) = "," -> <<"%", "2", "C">>
            [] Head(str) = " " -> <<"+">>
            [] Head(str) = "'" -> <<"%", "2", "7">>
            [] Head(str) = "[" -> <<"%", "5", "B">>
            [] Head(str) = "]" -> <<"%", "5", "D">>
            [] Head(str) = "(" -> <<"%", "2", "8">>
            [] Head(str) = ")" -> <<"%", "2", "9">>
            [] Head(str) = "{" -> <<"%", "7", "B">>
            [] Head(str) = "}" -> <<"%", "7", "D">>
            [] OTHER -> <<Head(str)>>) \o quote_plus(Tail(str))

\* urllib.parse.urlencode(request_params): the value sent for each key
urlencode(params) == [k \in DOMAIN params |-> quote_plus(py_str(params[k]))]

VARIABLES
    phase,              \* "new", "ready" (constructed) or "failed" (__init__ raised)
    probe,              \* the probe's answer
    probes,             \* number of classification probes made
    ctor_exc,           \* what __post_init__ raised
    token_owner,        \* self.token_owner
    delay,              \* self._delay
    token,              \* self.token
    version,            \* self.version
    autocomplete_params, \* self.autocomplete_params
    method_name,        \* self._method_name
    last_request_time,  \* self._last_request_time
    now,                \* the event loop's clock
    skew,               \* time.time() - now
    moves,              \* number of steps of the wall clock so far
    ncalls,             \* number of calls made so far
    naccess,            \* number of attribute reads so far
    comp,               \* per coroutine slot: the attributes read for its composition
    task                \* per coroutine slot: the request coroutine

vars == <<phase, probe, probes, ctor_exc, token_owner, delay, token, version,
          autocomplete_params, method_name,
          last_request_time, now, skew, moves, ncalls, naccess, comp, task>>

fields == <<token, version, autocomplete_params>>
client == <<phase, probe, probes, ctor_exc, token_owner, delay, fields>>
clock == <<now, skew, moves>>
made == <<ncalls, naccess>>

\* by how much the wall clock can be stepped
ClockSteps == {-1, 1}

\* A slot with no coroutine in it.
NoTask ==
    [pc |-> "none", kind |-> "none", name |-> <<>>, left |-> <<>>,
     auto |-> FALSE, given |-> NoParams, params |-> NoParams, data |-> NoParams,
     wake |-> None, anchor |-> None, slot |-> None, txat |-> None, writes |-> 0,
     body |-> NoExc, out |-> NoExc]

Init ==
    /\ phase = "new"
    /\ probe = Garbage
    /\ probes = 0
    /\ ctor_exc = NoExc
    /\ token_owner = "none"
    /\ delay = 0
    /\ token = <<>>
    /\ version = <<>>
    /\ autocomplete_params = NoParams
    /\ method_name = <<>>
    /\ last_request_time = 0
    /\ now = Epoch
    /\ skew = 0
    /\ moves = 0
    /\ ncalls = 0
    /\ naccess = 0
    /\ comp = [c \in Calls |-> <<>>]
    /\ task = [c \in Calls |-> NoTask]

\* __post_init__ starting the delay keeper at the time of construction
PostInitStampsNow(body, autocomplete) ==
    /\ phase = "new"
    /\ token' = Token
    /\ version' = Version
    /\ autocomplete_params' = autocomplete
    /\ LET r == define_token_owner(body)
       IN  /\ probe' = body
           /\ probes' = probes + 1
           /\ method_name' = <<>>
           /\ last_request_time' = now + skew
           /\ ctor_exc' = r.exc
           /\ IF r.exc # NoExc
              THEN /\ phase' = "failed"
                   /\ UNCHANGED <<token_owner, delay>>
              ELSE /\ phase' = "ready"
                   /\ token_owner' = r.owner
                   /\ delay' = IF r.owner = "user" THEN DelayUser ELSE DelayGroup
    /\ UNCHANGED <<clock, made, comp, task>>

\* API(token, autocomplete_params=autocomplete): the dataclass __init__ and
\* __post_init__
PostInit(body, autocomplete) ==
    /\ phase = "new"
    /\ token' = Token
    /\ version' = Version
    /\ autocomplete_params' = autocomplete
    /\ LET r == define_token_owner(body)
       IN  /\ probe' = body
           /\ probes' = probes + 1
           /\ method_name' = <<>>
           /\ last_request_time' = 0
           /\ ctor_exc' = r.exc
           /\ IF r.exc # NoExc
              THEN /\ phase' = "failed"
                   /\ UNCHANGED <<token_owner, delay>>
              ELSE /\ phase' = "ready"
                   /\ token_owner' = r.owner
                   /\ delay' = IF r.owner = "user" THEN DelayUser ELSE DelayGroup
    /\ UNCHANGED <<clock, made, comp, task>>

\* Free slots are alike: a composition or a call takes the lowest one.
Free(c) == comp[c] = <<>> /\ task[c].pc = "none"
MayUse(c) == ~Free(c) \/ \A b \in Calls : b < c => ~Free(b)

\* no request coroutine exists
Idle == \A c \in Calls : task[c].pc = "none"

\* api.<attribute>, read while composing the call of slot c: __getattr__
GetAttr(c, attribute) ==
    /\ phase = "ready"
    /\ task[c].pc = "none"
    /\ MayUse(c)
    /\ naccess < MaxAccess
    /\ naccess' = naccess + 1
    /\ method_name' = getattr_name(method_name, attribute)
    /\ comp' = [comp EXCEPT ![c] = Append(@, attribute)]
    /\ UNCHANGED <<client, clock, ncalls, last_request_time, task>>

\* the attribute chain of slot c is dropped without being called
Abandon(c) ==
    /\ task[c].pc = "none"
    /\ comp[c] # <<>>
    /\ comp' = [comp EXCEPT ![c] = <<>>]
    /\ UNCHANGED <<client, clock, made, method_name, last_request_time, task>>

\* positional arguments of a fluent call, by truthiness
PosArgs == { <<>>, <<TRUE>>, <<TRUE, TRUE>> }

\* api.a.b(*args, **request_params), after the attribute chain of slot c:
\* __call__.  More than one positional argument does not bind to
\* (use_autocomplete_params_=False, /, **request_params): TypeError, and the
\* body does not run.
FluentCall(c, args, kwargs) ==
    /\ phase = "ready"
    /\ task[c].pc = "none"
    /\ comp[c] # <<>>
    /\ ncalls < MaxCalls
    /\ ncalls' = ncalls + 1
    /\ IF Len(args) > 1
       THEN /\ task' = [task EXCEPT ![c] =
                  [@ EXCEPT !.pc = "raised", !.kind = "fluent", !.given = kwargs,
                            !.out = Exc("TypeError"), !.left = method_name]]
            /\ UNCHANGED method_name
       ELSE /\ method_name' = <<>>
            /\ task' = [task EXCEPT ![c] =
                  [@ EXCEPT !.pc = "created", !.kind = "fluent",
                            !.name = convert_name(method_name), !.left = <<>>,
                            !.auto = (args # <<>> /\ args[1]), !.given = kwargs,
                            !.params = call_params(token, version,
                                           args # <<>> /\ args[1],
                                           autocomplete_params, kwargs)]]
    /\ UNCHANGED <<client, clock, naccess, last_request_time, comp>>

\* api.method(method_name, request_params)
Method(c, name, request_params) ==
    /\ phase = "ready"
    /\ Free(c)
    /\ MayUse(c)
    /\ ncalls < MaxCalls
    /\ ncalls' = ncalls + 1
    /\ task' = [task EXCEPT ![c] =
          [@ EXCEPT !.pc = "created", !.kind = "method",
                    !.name = convert_name(name), !.left = method_name,
                    !.given = request_params,
                    !.params = fill_request_params(token, version,
                                                   request_params)]]
    /\ UNCHANGED <<client, clock, naccess, method_name, last_request_time, comp>>

\* the same when request_params is the caller's own dict, not a copy of it
encoded_in_place(t) ==
    [t EXCEPT !.params = flatten(t.params), !.data = urlencode(flatten(t.params)),
              !.given = flatten(t.given)]

\* lines 219-223 of _make_api_request: the collections of request_params are
\* replaced in that dict, and the dict is encoded
encoded(t) ==
    [t EXCEPT !.params = flatten(t.params), !.data = urlencode(flatten(t.params))]

\* requests_session.write(query) is called by slot c
written(t) == [t EXCEPT !.pc = "writing", !.txat = now, !.writes = @ + 1]

\* Start with _waiting keeping the time left to wait in self._delay
StartShrinksDelay(c) ==
    /\ task[c].pc = "created"
    /\ LET w == waiting(last_request_time, now + skew, delay)
       IN  /\ last_request_time' = w.last
           /\ delay' = IF w.slept THEN w.wait_time ELSE delay
           /\ task' = [task EXCEPT ![c] =
                 IF w.slept
                 THEN [encoded(@) EXCEPT !.pc = "sleeping", !.slot = w.last,
                                         !.wake = now + w.wait_time,
                                         !.anchor = last_request_time - skew]
                 ELSE written(encoded(@))]
    /\ UNCHANGED <<phase, probe, probes, ctor_exc, token_owner, fields, clock,
                   made, method_name, comp>>

\* Start with _waiting taking its turn only once it has slept
StartReservesLater(c) ==
    /\ task[c].pc = "created"
    /\ LET w == waiting(last_request_time, now + skew, delay)
       IN  /\ last_request_time' = IF w.slept THEN last_request_time ELSE w.last
           /\ task' = [task EXCEPT ![c] =
                 IF w.slept
                 THEN [encoded(@) EXCEPT !.pc = "sleeping", !.slot = w.last,
                                         !.wake = now + w.wait_time,
                                         !.anchor = last_request_time - skew]
                 ELSE written(encoded(@))]
    /\ UNCHANGED <<client, clock, made, method_name, comp>>

\* The coroutine of slot c starts: _make_api_request up to its first
\* suspension, through _waiting.  Either it goes to sleep, or it is granted
\* at once and calls requests_session.write.
Start(c) ==
    /\ task[c].pc = "created"
    /\ LET w == waiting(last_request_time, now + skew, delay)
       IN  /\ last_request_time' = w.last
           /\ task' = [task EXCEPT ![c] =
                 IF w.slept
                 THEN [encoded(@) EXCEPT !.pc = "sleeping", !.slot = w.last,
                                         !.wake = now + w.wait_time,
                                         !.anchor = last_request_time - skew]
                 ELSE written(encoded(@))]
    /\ UNCHANGED <<client, clock, made, method_name, comp>>

\* asyncio.sleep(wait_time) is over: the loop resumes the coroutine at some
\* iteration not before its deadline; it calls requests_session.write.
Wake(c) ==
    /\ task[c].pc = "sleeping"
    /\ now >= task[c].wake
    /\ task' = [task EXCEPT ![c] = written(@)]
    /\ UNCHANGED <<client, clock, made, method_name, last_request_time, comp>>

\* requests_session.write returns; read_body is called
WriteDone(c) ==
    /\ task[c].pc = "writing"
    /\ task' = [task EXCEPT ![c] =
          [@ EXCEPT !.pc = "reading", !.wake = None, !.anchor = None, !.slot = None]]
    /\ UNCHANGED <<client, clock, made, method_name, last_request_time, comp>>

\* requests_session.write or read_body raises
TransportFail(c) ==
    /\ task[c].pc \in {"writing", "reading"}
    /\ task' = [task EXCEPT ![c] =
          [@ EXCEPT !.pc = "raised", !.out = Exc("TransportError"),
                    !.wake = None, !.anchor = None, !.slot = None]]
    /\ UNCHANGED <<client, clock, made, method_name, last_request_time, comp>>

\* read_body returns `body` (Garbage: json_parser.loads raises); the rest of
\* _make_api_request
ReadBody(c, body) ==
    /\ task[c].pc = "reading"
    /\ LET r == normalize(body)
       IN  task' = [task EXCEPT ![c] =
              IF r.exc # NoExc
              THEN [@ EXCEPT !.pc = "raised", !.body = body, !.out = r.exc]
              ELSE [@ EXCEPT !.pc = "done", !.body = body, !.out = r.value]]
    /\ UNCHANGED <<client, clock, made, method_name, last_request_time, comp>>

\* the caller abandons the call at one of its suspension points
Cancel(c) ==
    /\ task[c].pc \in {"sleeping", "writing", "reading"}
    /\ task' = [task EXCEPT ![c] =
          [@ EXCEPT !.pc = "cancelled", !.out = Exc("CancelledError"),
                    !.wake = None, !.anchor = None, !.slot = None]]
    /\ UNCHANGED <<client, clock, made, method_name, last_request_time, comp>>

\* the caller has received the value or the exception; the slot is free again
Collect(c) ==
    /\ task[c].pc \in {"done", "raised", "cancelled"}
    /\ task' = [task EXCEPT ![c] = NoTask]
    /\ comp' = [comp EXCEPT ![c] = <<>>]
    /\ UNCHANGED <<client, clock, made, method_name, last_request_time>>

\* time passes
Tick ==
    /\ phase = "ready"
    /\ now < Epoch + MaxTime
    /\ now' = now + 1
    /\ UNCHANGED <<client, skew, moves, made, method_name, last_request_time, comp,
                   task>>

\* the wall clock is stepped (time.time() is not monotonic)
ClockMove(d) ==
    /\ phase = "ready"
    /\ moves < MaxMoves
    /\ skew' = skew + d
    /\ moves' = moves + 1
    /\ UNCHANGED <<client, now, made, method_name, last_request_time, comp, task>>

\* One caller that awaits each call before it makes the next; any names, any
\* arguments, any answer of the server.  The clock stands still, so a call that
\* has to wait stays asleep until it is cancelled.
Next ==
    \/ \E body \in ProbeBodies : PostInit(body, NoParams)
    \/ \E c \in Calls, attribute \in Segments : GetAttr(c, attribute)
    \/ \E c \in Calls : Abandon(c)
    \/ \E c \in Calls, args \in PosArgs : Idle /\ FluentCall(c, args, NoParams)
    \/ \E c \in Calls, name \in MethodNames : Idle /\ Method(c, name, NoParams)
    \/ \E c \in Calls : Start(c)
    \/ \E c \in Calls : WriteDone(c)
    \/ \E c \in Calls : TransportFail(c)
    \/ \E c \in Calls, body \in Bodies : ReadBody(c, body)
    \/ \E c \in Calls : Cancel(c)
    \/ \E c \in Calls : Collect(c)

Spec == Init /\ [][Next]_vars

\* Callers that make calls while others are in flight, as time passes on a
\* wall clock that is never stepped; the server answers every request with the
\* same envelope.
NextSteady ==
    \/ \E body \in ProbeBodies : PostInit(body, NoParams)
    \/ \E c \in Calls : Method(c, <<"a">>, NoParams)
    \/ \E c \in Calls : Start(c)
    \/ \E c \in Calls : Wake(c)
    \/ \E c \in Calls : WriteDone(c)
    \/ \E c \in Calls : ReadBody(c, Envelope(UserObject))
    \/ \E c \in Calls : Cancel(c)
    \/ \E c \in Calls : Collect(c)
    \/ Tick

SpecSteady == Init /\ [][NextSteady]_vars

\* The same callers, and a wall clock that is stepped while a call is asleep.
NextConcurrent ==
    \/ \E body \in ProbeBodies : PostInit(body, NoParams)
    \/ \E c \in Calls : Method(c, <<"a">>, NoParams)
    \/ \E c \in Calls : Start(c)
    \/ \E c \in Calls : Wake(c)
    \/ \E c \in Calls : WriteDone(c)
    \/ \E c \in Calls : ReadBody(c, Envelope(UserObject))
    \/ \E c \in Calls : Cancel(c)
    \/ \E c \in Calls : Collect(c)
    \/ Tick
    \/ \E d \in ClockSteps :
          (\E c \in Calls : task[c].pc = "sleeping") /\ ClockMove(d)

SpecConcurrent == Init /\ [][NextConcurrent]_vars
\* attribute names, autocomplete_params and request parameters for SpecEncode
WideSegments == { <<"_", "a">>, <<"a", "_", "_", "b">> }
AutoSets ==
    { NoParams,
      [group_id |-> JInt(12)],
      [group_id |-> JInt(12), access_token |-> JStr(<<"o">>)] }
ParamSets ==
    { NoParams,
      [user_ids |-> JList(<<JInt(1), JInt(23), JStr(<<"b">>)>>)],
      [group_id |-> JInt(5), user_ids |-> PySet(<<JStr(<<"b">>), JInt(7)>>)],
      [access_token |-> JStr(<<"m", "y">>), v |-> JStr(<<"5">>),
       q |-> JStr(<<"a", " ", "b">>), user_ids |-> PyTuple(<<>>)] }

\* One caller that awaits each call before it makes the next, on a client of a
\* group token built with any autocomplete_params; any request parameters.
\* The clock stands still.
NextEncode ==
    \/ \E autocomplete \in AutoSets :
          PostInit(Envelope(JList(<<>>)), autocomplete)
    \/ \E c \in Calls, attribute \in WideSegments : GetAttr(c, attribute)
    \/ \E c \in Calls, args \in PosArgs, kwargs \in ParamSets :
          Idle /\ FluentCall(c, args, kwargs)
    \/ \E c \in Calls, request_params \in ParamSets :
          Idle /\ Method(c, <<"a", ".", "b", "_", "a">>, request_params)
    \/ \E c \in Calls : Start(c)
    \/ \E c \in Calls : WriteDone(c)
    \/ \E c \in Calls : ReadBody(c, Envelope(JInt(1)))
    \/ \E c \in Calls : Cancel(c)
    \/ \E c \in Calls : Collect(c)

SpecEncode == Init /\ [][NextEncode]_vars

\* ============================================================ properties

\* ------------------------------------------------------------------ C1
\* the request of slot c has been written at some time
Transmitted(c) == task[c].txat # None

\* C1: every call is transmitted once, and any two transmissions on the
\* client are at least the client's interval apart.
TransmissionsSpaced ==
    /\ \A c \in Calls : task[c].pc = "done" => task[c].writes = 1
    /\ \A b, c \in Calls :
          (b # c /\ Transmitted(b) /\ Transmitted(c) /\ task[b].txat <= task[c].txat)
              => task[c].txat - task[b].txat >= delay

\* ------------------------------------------------------------------ C2
\* C2: a call that found less than the interval elapsed since the call before
\* it is transmitted no earlier than that call's time (the last-granted time
\* it found, on the clock as it stood then) plus the interval, however much
\* time passes and however the wall clock is stepped while it waits.
SecondCallWaitsFullInterval ==
    \A c \in Calls :
        (task[c].pc = "writing" /\ task[c].anchor # None)
            => task[c].txat >= task[c].anchor + delay

\* the second of two calls had to wait, the wall clock was stepped after it
\* went to sleep, and it has been transmitted after its deadline
WaitedThroughClockStep ==
    \E c \in Calls :
        /\ ncalls = 2
        /\ task[c].pc = "writing" /\ task[c].anchor # None
        /\ last_request_time - skew # task[c].anchor + delay
        /\ task[c].txat > task[c].wake

\* ------------------------------------------------------------------ C5
\* C5: a call transmitted after a call that was cancelled is at least one
\* interval after that call's transmission.
SpacedAfterCancelled ==
    \A b, c \in Calls :
        (/\ b # c
         /\ task[b].pc = "cancelled" /\ Transmitted(b)
         /\ Transmitted(c) /\ task[b].txat <= task[c].txat)
            => task[c].txat - task[b].txat >= delay

\* ------------------------------------------------------------------ C6
\* C6: when a call is cancelled while it waits for its turn, the turn it had
\* reserved is given back: the last-granted time goes back by one interval.
CancelledWaiterGivesTurnBack ==
    [][\A c \in Calls :
          (task[c].pc = "sleeping" /\ task'[c].pc = "cancelled")
              => last_request_time' = last_request_time - delay]_vars

\* ------------------------------------------------------------------ C3
RECURSIVE DotJoin(_)
\* the '.'-join of the converted segments
DotJoin(segs) ==
    IF segs = <<>> THEN <<>>
    ELSE IF Len(segs) = 1 THEN convert_name(segs[1])
    ELSE DotJoin(SubSeq(segs, 1, Len(segs) - 1)) \o <<".">>
         \o convert_name(segs[Len(segs)])

\* C3: the name a fluent call dispatches is the '.'-join of the converted
\* segments read for that call's composition, whatever other chains were
\* started, finalized or dropped on the client.
FluentNameIsOwnSegments ==
    \A c \in Calls :
        (task[c].kind = "fluent" /\ task[c].pc = "created")
            => task[c].name = DotJoin(comp[c])

\* ------------------------------------------------------------------ C4
\* C4: a fluent call that fails (remote error, transport error, decode error
\* or rejection of the call itself) has left the accumulator empty.
FailedFluentCallLeftEmpty ==
    \A c \in Calls :
        (task[c].kind = "fluent" /\ task[c].pc = "raised")
            => task[c].left = <<>>

\* ------------------------------------------------------------------ C7
\* C7: a call whose decoded envelope has an `error` key raises the remote API
\* error with the envelope's code and message, returns no value, and has
\* written its request once.
ErrorEnvelopeRaisesTypedError ==
    \A c \in Calls :
        HasKey(task[c].body, "error") =>
            /\ task[c].pc = "raised"
            /\ task[c].out = [t |-> "exc", e |-> "VkApiError",
                              code |-> task[c].body.d.error.d.error_code,
                              msg |-> task[c].body.d.error.d.error_msg]
            /\ task[c].writes = 1

\* a call has read an envelope that carries both an error and a response
ErrorWithResponseRead ==
    \E c \in Calls :
        /\ task[c].pc = "raised"
        /\ task[c].body = JDict([error |-> ErrorDescriptor, response |-> JInt(1)])

\* ----------------------------------------------------------------- C10
\* C10: once the client is constructed, no step changes the token owner or
\* the delay, and no further classification probe is made.
ClassFixedAfterConstruction ==
    [][phase = "ready" =>
          /\ phase' = "ready"
          /\ token_owner' = token_owner
          /\ delay' = delay
          /\ probes' = probes]_vars

\* a constructed client on which a second call had to wait and was cancelled,
\* after a first call made through the attribute chain
CallsMadeAfterConstruction ==
    /\ phase = "ready" /\ probes = 1 /\ ncalls >= 2
    /\ \E c \in Calls : task[c].pc = "cancelled" /\ task[c].writes = 0

\* ------------------------------------------------------------------ C8
\* C8: when the classification probe answers with an error envelope,
\* construction raises the remote API error (and no class or interval is set).
ProbeErrorRaisesRemoteError ==
    (phase # "new" /\ HasKey(probe, "error")) =>
        /\ phase = "failed"
        /\ ctor_exc.t = "exc" /\ ctor_exc.e = "VkApiError"
        /\ token_owner = "none" /\ delay = 0

\* ------------------------------------------------------------------ C9
\* C9: an empty probe response classifies the token as GROUP and a non-empty
\* one as USER; the client's interval is the one of that class, and the group
\* interval is strictly shorter than the user interval.
ClassificationSelectsInterval ==
    phase = "ready" =>
        /\ probe.t = "dict" /\ "response" \in DOMAIN probe.d
        /\ ~Truthy(probe.d.response) => token_owner = "group" /\ delay = DelayGroup
        /\ Truthy(probe.d.response) => token_owner = "user" /\ delay = DelayUser
        /\ DelayGroup < DelayUser

\* a client built on an empty probe response
GroupClientBuilt ==
    phase = "ready" /\ probe = Envelope(JList(<<>>)) /\ token_owner = "group"
\* ----------------------------------------------------------------- C11
\* what is sent for a value a caller or the client supplies
Wire(value) == urlencode(flatten([x |-> value])).x

\* C11: in the parameters a call transmits, every key the caller supplied
\* carries the caller's value.
CallerParamsWin ==
    \A c \in Calls :
        task[c].data # NoParams =>
            \A k \in DOMAIN task[c].given :
                task[c].data[k] = Wire(task[c].given[k])

\* ----------------------------------------------------------------- C13
\* C13: converting a dispatched name again gives the same name, and a fluent
\* call dispatches the accumulated name (segments converted once on access)
\* as it stands.
ConversionIdempotent ==
    [][\A c \in Calls :
          (task[c].pc = "none" /\ task'[c].pc = "created") =>
              /\ convert_name(task'[c].name) = task'[c].name
              /\ task'[c].kind = "fluent" => task'[c].name = method_name]_vars

\* a fluent call whose converted name still holds an underscore
UnderscoreKeptInName ==
    \E c \in Calls :
        /\ task[c].kind = "fluent" /\ task[c].pc = "created"
        /\ \E i \in DOMAIN task[c].name : task[c].name[i] = "_"

\* ----------------------------------------------------------------- C14
RECURSIVE JoinedInOrder(_)
\* the stringified elements of l, in order, with commas between them
JoinedInOrder(l) ==
    IF l = <<>> THEN <<>>
    ELSE IF Len(l) = 1 THEN py_str(l[1])
    ELSE JoinedInOrder(SubSeq(l, 1, Len(l) - 1)) \o <<",">> \o py_str(l[Len(l)])

\* C14: encoding replaces every list, set or tuple value by the comma-joined
\* string of its stringified elements in their order, and leaves the other
\* values as they are.
CollectionsCommaJoined ==
    [][\A c \in Calls :
          (task[c].pc = "created" /\ task'[c].pc # "created") =>
              /\ DOMAIN task'[c].params = DOMAIN task[c].params
              /\ \A k \in DOMAIN task[c].params :
                    task'[c].params[k] =
                        IF task[c].params[k].t \in {"list", "set", "tuple"}
                        THEN JStr(JoinedInOrder(task[c].params[k].l))
                        ELSE task[c].params[k]]_vars

\* a call given a set of two elements has been encoded
SetValueEncoded ==
    \E c \in Calls :
        /\ task[c].data # NoParams
        /\ "user_ids" \in DOMAIN task[c].given
        /\ task[c].given.user_ids.t = "set"
        /\ task[c].params.user_ids = JStr(<<"b", ",", "7">>)

\* ----------------------------------------------------------------- C19
\* C19: with autocomplete requested, every entry of autocomplete_params is
\* transmitted unless the caller supplied its key, and then the caller's value
\* is; without it, only the caller's keys and the defaults are transmitted.
AutocompleteFillsGaps ==
    \A c \in Calls :
        (task[c].kind = "fluent" /\ task[c].data # NoParams) =>
            IF task[c].auto
            THEN \A k \in DOMAIN autocomplete_params :
                    /\ k \in DOMAIN task[c].data
                    /\ task[c].data[k] =
                          IF k \in DOMAIN task[c].given
                          THEN Wire(task[c].given[k])
                          ELSE Wire(autocomplete_params[k])
            ELSE DOMAIN task[c].data =
                     DOMAIN task[c].given \cup {"access_token", "v"}

\* ----------------------------------------------------------------- C20
\* C20: no step of a call changes the token, the version, the client's
\* autocomplete_params or the mapping the caller supplied.
EncodingLeavesInputs ==
    [][phase = "ready" =>
          /\ token' = token
          /\ version' = version
          /\ autocomplete_params' = autocomplete_params
          /\ \A c \in Calls :
                (task[c].pc # "none" /\ task'[c].pc # "none")
                    => task'[c].given = task[c].given]_vars

\* a fluent call with autocomplete, given a collection, has been encoded on a
\* client that has autocomplete_params
AutocompleteCallEncoded ==
    \E c \in Calls :
        /\ task[c].auto /\ task[c].data # NoParams
        /\ autocomplete_params # NoParams
        /\ \E k \in DOMAIN task[c].given : IsCollection(task[c].given[k])
\* ----------------------------------------------------------------- C12
\* C12: a call that returns has returned, for a mapping response, that mapping
\* wrapped; for a sequence, a sequence of the same length with each element
\* wrapped, in order; for any other value, the value itself.
NormalizedByShape ==
    \A c \in Calls :
        task[c].pc = "done" =>
            LET r == task[c].body.d.response
                out == task[c].out
            IN  CASE r.t = "dict" -> out = response_factory(r)
                  [] r.t = "list" ->
                        /\ out.t = "list"
                        /\ Len(out.l) = Len(r.l)
                        /\ \A i \in DOMAIN r.l : out.l[i] = response_factory(r.l[i])
                  [] OTHER -> out = r

\* a call has returned for a response that is a sequence of two mappings
SequenceReturned ==
    \E c \in Calls :
        /\ task[c].pc = "done"
        /\ task[c].body.d.response.t = "list"
        /\ Len(task[c].body.d.response.l) = 2
\* ----------------------------------------------------------------- C15
\* the coroutine of slot c goes through _waiting in this step
Starts(c) == task[c].pc = "created" /\ task'[c].pc # "created"

\* C15: a call that finds elapsed = now - last_granted >= interval is granted
\* at once and last_granted becomes now; one that finds elapsed < interval
\* sleeps for interval - elapsed and last_granted becomes the previous
\* last_granted + interval.
LimiterDecisionRule ==
    [][\A c \in Calls :
          Starts(c) =>
              LET elapsed == (now + skew) - last_request_time
              IN  IF elapsed >= delay
                  THEN /\ task'[c].pc = "writing" /\ task'[c].txat = now
                       /\ last_request_time' = now + skew
                  ELSE /\ task'[c].pc = "sleeping"
                       /\ task'[c].wake - now = delay - elapsed
                       /\ last_request_time' = last_request_time + delay]_vars

\* one call has been granted at once and another sleeps on the turn after it
GrantedAndSleeping ==
    \E b, c \in Calls :
        /\ task[b].pc = "writing" /\ task[b].anchor = None
        /\ task[c].pc = "sleeping" /\ task[c].wake > now
        /\ task[c].slot = last_request_time

\* ----------------------------------------------------------------- C16
\* C16: the turn a call takes is recorded before it waits and is at least one
\* interval after the last-granted time it found and after the turn of every
\* call that is asleep: no stale value is read and no turn is given twice.
ReservationAtomic ==
    [][\A c \in Calls :
          Starts(c) =>
              /\ last_request_time' >= last_request_time + delay
              /\ task'[c].pc = "sleeping" => task'[c].slot = last_request_time'
              /\ \A b \in Calls \ {c} :
                    task[b].pc = "sleeping"
                        => last_request_time' >= task[b].slot + delay]_vars

\* two calls asleep, the second on the turn after the first one's
TwoAsleep ==
    \E b, c \in Calls :
        /\ task[b].pc = "sleeping" /\ task[c].pc = "sleeping"
        /\ task[c].slot = task[b].slot + delay

\* ----------------------------------------------------------------- C17
\* no call on the client has gone through _waiting, and slot c holds one
FirstToStart(c) ==
    /\ task[c].pc = "created"
    /\ \A b \in Calls \ {c} : task[b].pc \in {"none", "created"}
    /\ ncalls = Cardinality({b \in Calls : task[b].pc # "none"})

\* C17: the first call on a fresh client is granted at once, without sleeping,
\* and the time of the call becomes last-granted.
FirstCallImmediate ==
    [][\A c \in Calls :
          (FirstToStart(c) /\ Starts(c)) =>
              /\ task'[c].pc = "writing" /\ task'[c].txat = now
              /\ task'[c].wake = None
              /\ last_request_time' = now + skew]_vars

\* the only call made so far is being written
FirstCallWritten ==
    /\ ncalls = 1
    /\ \E c \in Calls :
          /\ task[c].pc = "writing" /\ task[c].wake = None
          /\ last_request_time = task[c].txat + skew

\* ----------------------------------------------------------------- C18
\* the call of slot c is between its write and the end of its read_body
OnSession(c) == task[c].pc \in {"writing", "reading"}

\* C18: between a call's write on the session and its read of the response
\* body, no other call writes to or reads from the session.
OneCallOnSession ==
    \A b, c \in Calls : (b # c /\ OnSession(b)) => ~OnSession(c)
====
